---- MODULE Spec2Model ----
(***************************************************************************)
(* PC Screen Font (PSF2) parser and query API of src/src/lib.rs.           *)
(* Font::parse is modelled step by step over a concrete byte buffer;       *)
(* Font::lookup and Glyph::get are queries on the parsed Font.             *)
(* Bytes are naturals 0..255, characters are Unicode scalar values.        *)
(* Sequences are 1-based: byte k of a Rust slice s is s[k + 1].            *)
(***************************************************************************)
EXTENDS Integers, Sequences, FiniteSets

VARIABLES font, pc, length, charsize, height, width, line_size,
          glyphs, unicode_info, unicode_map, glyph, i, nc, res

vars == <<font, pc, length, charsize, height, width, line_size,
          glyphs, unicode_info, unicode_map, glyph, i, nc, res>>

(***************************************************************************)
(* Bounds of the explored inputs.                                          *)
(***************************************************************************)
MaxLength == 2
MaxCharsize == 2
MaxHeight == 2
MaxTable == 4

(***************************************************************************)
(* Byte-level helpers.                                                     *)
(***************************************************************************)
glyphs_offset == 32

RECURSIVE BitAnd(_, _)
BitAnd(a, b) ==
    IF a = 0 \/ b = 0 THEN 0
    ELSE (IF a % 2 = 1 /\ b % 2 = 1 THEN 1 ELSE 0) + 2 * BitAnd(a \div 2, b \div 2)

RECURSIVE ShiftRight(_, _)
ShiftRight(a, n) == IF n = 0 THEN a ELSE ShiftRight(a \div 2, n - 1)

RECURSIVE leading_ones(_)
leading_ones(b) == IF b >= 128 THEN 1 + leading_ones((2 * b) % 256) ELSE 0

Max(a, b) == IF a >= b THEN a ELSE b

div_ceil(a, b) == (a + b - 1) \div b

\* u32::from_le_bytes(font[off..off + 4])
from_le_bytes(s, off) ==
    s[off + 1] + 256 * s[off + 2] + 65536 * s[off + 3] + 16777216 * s[off + 4]

IsCont(b) == b >= 128 /\ b <= 191

\* Length of the well-formed UTF-8 character at the head of s, 0 if there is none.
Utf8Head(s) ==
    IF Len(s) = 0 THEN 0
    ELSE IF s[1] < 128 THEN 1
    ELSE IF s[1] >= 194 /\ s[1] <= 223
         THEN IF Len(s) >= 2 /\ IsCont(s[2]) THEN 2 ELSE 0
    ELSE IF s[1] >= 224 /\ s[1] <= 239
         THEN IF /\ Len(s) >= 3
                 /\ IsCont(s[2])
                 /\ IsCont(s[3])
                 /\ (s[1] = 224 => s[2] >= 160)
                 /\ (s[1] = 237 => s[2] <= 159)
              THEN 3 ELSE 0
    ELSE IF s[1] >= 240 /\ s[1] <= 244
         THEN IF /\ Len(s) >= 4
                 /\ IsCont(s[2])
                 /\ IsCont(s[3])
                 /\ IsCont(s[4])
                 /\ (s[1] = 240 => s[2] >= 144)
                 /\ (s[1] = 244 => s[2] <= 143)
              THEN 4 ELSE 0
    ELSE 0

\* core::str::from_utf8(s).is_ok()
RECURSIVE from_utf8_ok(_)
from_utf8_ok(s) ==
    IF Len(s) = 0 THEN TRUE
    ELSE LET n == Utf8Head(s)
         IN  n > 0 /\ from_utf8_ok(SubSeq(s, n + 1, Len(s)))

\* st.chars().next().unwrap() of a valid, non-empty string
first_char(s) ==
    LET n == Utf8Head(s)
    IN  IF n = 1 THEN s[1]
        ELSE IF n = 2 THEN (s[1] - 192) * 64 + (s[2] - 128)
        ELSE IF n = 3 THEN (s[1] - 224) * 4096 + (s[2] - 128) * 64 + (s[3] - 128)
        ELSE (s[1] - 240) * 262144 + (s[2] - 128) * 4096 + (s[3] - 128) * 64 + (s[4] - 128)

(***************************************************************************)
(* Inputs.                                                                 *)
(***************************************************************************)
LE4(n) == <<n % 256, (n \div 256) % 256, (n \div 65536) % 256, (n \div 16777216) % 256>>

Header(l, c, h, w) ==
    [k \in 1..16 |-> 0] \o LE4(l) \o LE4(c) \o LE4(h) \o LE4(w)

\* 'A', the second byte of U+00F0, the first byte of U+00F0, separator, terminator
TableBytes == {65, 176, 195, 254, 255}

GlyphPattern == <<176, 65, 195, 254>>

GlyphBytes(n) == [k \in 1..n |-> GlyphPattern[((k - 1) % 4) + 1]]

Widths == {0, 8, 9}

RECURSIVE SeqsUpTo(_, _)
SeqsUpTo(S, n) ==
    IF n = 0 THEN {<<>>}
    ELSE LET shorter == SeqsUpTo(S, n - 1)
         IN  shorter \cup {Append(s, b) : s \in {t \in shorter : Len(t) = n - 1}, b \in S}

\* well-formed geometry and arbitrary mapping tables
TableFonts ==
    {Header(l, 1, 1, 8) \o GlyphBytes(l) \o t :
        l \in 0..MaxLength, t \in SeqsUpTo(TableBytes, MaxTable)}

\* arbitrary geometry and a short mapping table
GeometryFonts ==
    {Header(l, c, h, w) \o GlyphBytes(l * c) \o t :
        l \in 0..MaxLength, c \in 0..MaxCharsize, h \in 0..MaxHeight, w \in Widths,
        t \in {<<>>, <<65, 255>>}}

\* buffers cut short inside the header or the glyph table
TruncatedFonts ==
    {SubSeq(Header(l, 1, 1, 8) \o GlyphBytes(l), 1, n) :
        l \in 1..MaxLength, n \in {0, 16, 19, 20, 24, 28, 31, 32}}

LookupChars == {65, 66, 240}

NoResult == [op |-> "none", g |-> 0, x |-> 0, y |-> 0, c |-> 0, idx |-> -1, out |-> "none"]

Init ==
    /\ font \in TableFonts \cup GeometryFonts \cup TruncatedFonts
    /\ pc = "header"
    /\ length = 0
    /\ charsize = 0
    /\ height = 0
    /\ width = 0
    /\ line_size = 0
    /\ glyphs = <<>>
    /\ unicode_info = <<>>
    /\ unicode_map = <<>>
    /\ glyph = 0
    /\ i = 0
    /\ nc = 0
    /\ res = NoResult

(***************************************************************************)
(* Font::parse                                                             *)
(***************************************************************************)
\* lines 93-105: the four header fields; slicing a short buffer panics
HeaderReader ==
    /\ pc = "header"
    /\ IF Len(font) < 32
       THEN /\ pc' = "panic"
            /\ UNCHANGED <<length, charsize, height, width, line_size>>
       ELSE /\ length' = from_le_bytes(font, 16)
            /\ charsize' = from_le_bytes(font, 20)
            /\ height' = from_le_bytes(font, 24)
            /\ width' = from_le_bytes(font, 28)
            /\ line_size' = div_ceil(from_le_bytes(font, 28), 8)
            /\ pc' = "glyphs"
    /\ UNCHANGED <<font, glyphs, unicode_info, unicode_map, glyph, i, nc, res>>

\* lines 109-124: one iteration of the glyph loop
BuildGlyph ==
    /\ pc = "glyphs"
    /\ Len(glyphs) < length
    /\ LET bitmap_begin == glyphs_offset + charsize * Len(glyphs)
           bitmap_end == bitmap_begin + charsize
       IN  IF bitmap_end > Len(font)
           THEN /\ pc' = "panic"
                /\ UNCHANGED glyphs
           ELSE /\ glyphs' = Append(glyphs,
                        [bitmap |-> SubSeq(font, bitmap_begin + 1, bitmap_end),
                         line_size |-> line_size,
                         width |-> line_size * 8,
                         height |-> height])
                /\ pc' = "glyphs"
    /\ UNCHANGED <<font, length, charsize, height, width, line_size,
                   unicode_info, unicode_map, glyph, i, nc, res>>

\* lines 127-130: the mapping table is the rest of the buffer
BeginUnicode ==
    /\ pc = "glyphs"
    /\ Len(glyphs) = length
    /\ LET unicode_offset == glyphs_offset + length * charsize
       IN  IF unicode_offset > Len(font)
           THEN /\ pc' = "panic"
                /\ UNCHANGED <<unicode_info, glyph, i>>
           ELSE /\ unicode_info' = SubSeq(font, unicode_offset + 1, Len(font))
                /\ glyph' = 0
                /\ i' = 0
                /\ pc' = "outer"
    /\ UNCHANGED <<font, length, charsize, height, width, line_size,
                   glyphs, unicode_map, nc, res>>

\* lines 131-132 and 153-158: the outer loop test
EntryBegin ==
    /\ pc = "outer"
    /\ IF i < Len(unicode_info)
       THEN /\ nc' = unicode_info[i + 1]
            /\ pc' = "decode"
       ELSE /\ pc' = "done"
            /\ UNCHANGED nc
    /\ UNCHANGED <<font, length, charsize, height, width, line_size,
                   glyphs, unicode_info, unicode_map, glyph, i, res>>

\* lines 134-141: one iteration of the character loop
DecodeChar ==
    /\ pc = "decode"
    /\ nc # 254 /\ nc # 255
    /\ LET ch_bytes == Max(leading_ones(nc), 1)
           st == SubSeq(unicode_info, i + 1, i + ch_bytes)
       IN  IF i + ch_bytes > Len(unicode_info) \/ ~from_utf8_ok(st)
           THEN /\ pc' = "panic"
                /\ UNCHANGED <<unicode_map, i, nc>>
           ELSE /\ unicode_map' = Append(unicode_map, [c |-> first_char(st), i |-> glyph])
                /\ i' = i + ch_bytes
                /\ IF i + ch_bytes < Len(unicode_info)
                   THEN /\ nc' = unicode_info[i + ch_bytes + 1]
                        /\ pc' = "decode"
                   ELSE /\ pc' = "panic"
                        /\ UNCHANGED nc
    /\ UNCHANGED <<font, length, charsize, height, width, line_size,
                   glyphs, unicode_info, glyph, res>>

\* a skipping loop that records the bytes it passes as characters
SkipByte_recording ==
    /\ pc \in {"decode", "skip"}
    /\ nc # 255
    /\ pc = "decode" => nc = 254
    /\ i' = i + 1
    /\ unicode_map' = IF nc < 128 THEN Append(unicode_map, [c |-> nc, i |-> glyph])
                      ELSE unicode_map
    /\ IF i + 1 < Len(unicode_info)
       THEN /\ nc' = unicode_info[i + 2]
            /\ pc' = "skip"
       ELSE /\ pc' = "panic"
            /\ UNCHANGED nc
    /\ UNCHANGED <<font, length, charsize, height, width, line_size,
                   glyphs, unicode_info, glyph, res>>

\* a skipping loop that rereads the same byte
SkipByte_stalled ==
    /\ pc \in {"decode", "skip"}
    /\ nc # 255
    /\ pc = "decode" => nc = 254
    /\ pc' = "skip"
    /\ UNCHANGED <<font, length, charsize, height, width, line_size,
                   glyphs, unicode_info, unicode_map, glyph, i, nc, res>>

\* lines 144-147: one iteration of the skipping loop
SkipByte ==
    /\ pc \in {"decode", "skip"}
    /\ nc # 255
    /\ pc = "decode" => nc = 254
    /\ i' = i + 1
    /\ IF i + 1 < Len(unicode_info)
       THEN /\ nc' = unicode_info[i + 2]
            /\ pc' = "skip"
       ELSE /\ pc' = "panic"
            /\ UNCHANGED nc
    /\ UNCHANGED <<font, length, charsize, height, width, line_size,
                   glyphs, unicode_info, unicode_map, glyph, res>>

\* a counter that skips a glyph id at every terminator
NextGlyphId_skipping(g) == g + 2

\* line 150
NextGlyphId(g) == g + 1

\* lines 149-150: the terminator is consumed
ConsumeTerminator ==
    /\ pc \in {"decode", "skip"}
    /\ nc = 255
    /\ i' = i + 1
    /\ glyph' = NextGlyphId(glyph)
    /\ pc' = "outer"
    /\ UNCHANGED <<font, length, charsize, height, width, line_size,
                   glyphs, unicode_info, unicode_map, nc, res>>

ParseNext ==
    \/ HeaderReader
    \/ BuildGlyph
    \/ BeginUnicode
    \/ EntryBegin
    \/ DecodeChar
    \/ SkipByte
    \/ ConsumeTerminator

(***************************************************************************)
(* Queries on the parsed Font.  A result's out is "true"/"false"/"none"    *)
(* for Glyph::get, "some"/"none" for Font::lookup, and "panic" when the    *)
(* call aborts on an out-of-range index.                                   *)
(***************************************************************************)
\* lines 79-86: linear scan, first match wins; -1 stands for None
\* a scan in which the last match wins
RECURSIVE index_of_last(_, _, _)
index_of_last(map, c, k) ==
    IF k > Len(map) THEN -1
    ELSE LET later == index_of_last(map, c, k + 1)
         IN  IF later # -1 THEN later
             ELSE IF map[k].c = c THEN map[k].i
             ELSE -1

RECURSIVE index_of_from(_, _, _)
index_of_from(map, c, k) ==
    IF k > Len(map) THEN -1
    ELSE IF map[k].c = c THEN map[k].i
    ELSE index_of_from(map, c, k + 1)

index_of(map, c) == index_of_from(map, c, 1)

\* lines 74-76
lookup(c) ==
    LET idx == index_of(unicode_map, c)
    IN  [op |-> "lookup", g |-> 0, x |-> 0, y |-> 0, c |-> c, idx |-> idx,
         out |-> IF idx = -1 THEN "none"
                 ELSE IF idx < Len(glyphs) THEN "some"
                 ELSE "panic"]

\* line 51
out_of_bounds(gl, x, y) == x > gl.width \/ y > gl.height

\* a mask counted from the least significant bit
mask_lsb(bit_index) == 2 ^ bit_index

\* line 56
mask(bit_index) == ShiftRight(128, bit_index)

\* lines 50-59
get(g, x, y) ==
    LET gl == glyphs[g]
        line_byte_index == x \div 8
        bit_index == x % 8
        at == y * gl.line_size + line_byte_index
    IN  [op |-> "get", g |-> g, x |-> x, y |-> y, c |-> 0, idx |-> at,
         out |-> IF out_of_bounds(gl, x, y) THEN "none"
                 ELSE IF at >= Len(gl.bitmap) THEN "panic"
                 ELSE IF BitAnd(gl.bitmap[at + 1], mask(bit_index)) > 0 THEN "true"
                 ELSE "false"]

Lookup ==
    /\ pc = "done"
    /\ \E c \in LookupChars : res' = lookup(c)
    /\ UNCHANGED <<font, pc, length, charsize, height, width, line_size,
                   glyphs, unicode_info, unicode_map, glyph, i, nc>>

Get ==
    /\ pc = "done"
    /\ \E g \in 1..Len(glyphs) :
         \E x \in 0..(glyphs[g].width + 1), y \in 0..(glyphs[g].height + 1) :
            res' = get(g, x, y)
    /\ UNCHANGED <<font, pc, length, charsize, height, width, line_size,
                   glyphs, unicode_info, unicode_map, glyph, i, nc>>

Next ==
    \/ ParseNext
    \/ Lookup
    \/ Get

Spec == Init /\ [][Next]_vars

\* Font::parse is one synchronous call: a step that can be taken is taken.
FairSpec == Init /\ [][Next]_vars /\ WF_vars(ParseNext)

(***************************************************************************)
(* Vocabulary of the properties: the mapping table read declaratively.     *)
(***************************************************************************)
\* number of 0xFF bytes among the first n bytes of s
CountFF(s, n) == Cardinality({j \in 1..n : s[j] = 255})

\* byte j of s lies between a 0xFE and the 0xFF that ends its entry
AfterFE(s, j) ==
    \E p \in 1..(j - 1) : s[p] = 254 /\ \A q \in p..(j - 1) : s[q] # 255

\* positions of the bytes that begin a character listed before any 0xFE
Primary(s) ==
    {j \in 1..Len(s) : s[j] # 254 /\ s[j] # 255 /\ ~IsCont(s[j]) /\ ~AfterFE(s, j)}

\* the k-th primary position
PrimaryAt(s, k) ==
    CHOOSE j \in Primary(s) : Cardinality({p \in Primary(s) : p < j}) = k - 1

\* the character that begins at position j
CharAt(s, j) == first_char(SubSeq(s, j, j + Max(leading_ones(s[j]), 1) - 1))

\* positions of the mapping entries recorded for character c
Recorded(c) == {k \in 1..Len(unicode_map) : unicode_map[k].c = c}

MinOf(S) == CHOOSE m \in S : \A n \in S : m <= n

\* bit p of a byte, bit 0 being the most significant
BitMSB(byte, p) == (byte \div (2 ^ (7 - p))) % 2

Parsing == pc \in {"header", "glyphs", "outer", "decode", "skip"}

(***************************************************************************)
(* Properties.                                                             *)
(***************************************************************************)
\* C1: Glyph::get returns Some(boolean) when x < width and y < height, and
\* None when x >= width or y >= height; it never reads outside the bitmap.
C1_GetBounds ==
    res.op = "get" =>
        LET gl == glyphs[res.g]
        IN  /\ (res.x < gl.width /\ res.y < gl.height) => res.out \in {"true", "false"}
            /\ (res.x >= gl.width \/ res.y >= gl.height) => res.out = "none"

\* C2: every mapping entry of a returned Font has a glyph id below the number
\* of glyphs, so Font::lookup never indexes the glyph sequence out of range.
C2_ValidGlyphIds ==
    /\ pc = "done" => \A k \in 1..Len(unicode_map) : unicode_map[k].i < Len(glyphs)
    /\ res.op = "lookup" => res.out # "panic"

\* C3: Font::parse ends with a Font or with a typed error returned to the
\* caller; it never aborts, whatever the buffer.
C3_ParseNeverAborts == pc # "panic"

\* C4: a character recorded more than once resolves to the first association
\* recorded in parse order; later associations never override it.
C4_FirstWins ==
    (res.op = "lookup" /\ Recorded(res.c) # {}) =>
        LET first == unicode_map[MinOf(Recorded(res.c))]
        IN  /\ res.idx = first.i
            /\ first.i < Len(glyphs) => res.out = "some"

C4_Witness ==
    /\ res.op = "lookup"
    /\ res.out = "some"
    /\ \E a, b \in Recorded(res.c) :
          /\ a < b
          /\ unicode_map[a].i # unicode_map[b].i
          /\ res.idx = unicode_map[a].i

\* C5: every glyph built by Font::parse has bitmap.length = line_size * height.
C5_BitmapLength ==
    \A g \in 1..Len(glyphs) :
        Len(glyphs[g].bitmap) = glyphs[g].line_size * glyphs[g].height

\* C6: a Font is returned only when the mapping table holds exactly `length`
\* 0xFF-terminated entries.
C6_ExactEntryCount ==
    pc = "done" => CountFF(unicode_info, Len(unicode_info)) = length

\* C7: for in-bounds (x, y), Glyph::get is true exactly when bit x mod 8,
\* counted from the most significant bit, of bitmap byte
\* y * line_size + x div 8 is 1.
C7_PixelBit ==
    res.op = "get" =>
        LET gl == glyphs[res.g]
            at == res.y * gl.line_size + (res.x \div 8)
        IN  (res.x < gl.width /\ res.y < gl.height /\ at < Len(gl.bitmap)) =>
                /\ res.idx = at
                /\ res.out = IF BitMSB(gl.bitmap[at + 1], res.x % 8) = 1
                             THEN "true" ELSE "false"

\* the single-row, width-8 glyph 0b10110000 read at its third pixel
C7_Witness ==
    /\ res.op = "get"
    /\ glyphs[res.g].bitmap = <<176>>
    /\ glyphs[res.g].width = 8
    /\ glyphs[res.g].height = 1
    /\ res.x = 2
    /\ res.y = 0
    /\ res.out = "true"

\* C8: the k-th character decoded before any 0xFE is associated with the
\* number of 0xFF bytes that precede it; lookup resolves a character to the
\* earliest entry that lists it, and a character in no entry is absent.
C8_GlyphIdCounter ==
    /\ pc = "done" =>
          \A k \in 1..Len(unicode_map) :
              /\ k <= Cardinality(Primary(unicode_info))
              /\ unicode_map[k].c = CharAt(unicode_info, PrimaryAt(unicode_info, k))
              /\ unicode_map[k].i = CountFF(unicode_info, PrimaryAt(unicode_info, k) - 1)
    /\ res.op = "lookup" =>
          IF Recorded(res.c) = {}
          THEN res.out = "none"
          ELSE LET entry == MinOf({unicode_map[k].i : k \in Recorded(res.c)})
               IN  /\ res.idx = entry
                   /\ entry < Len(glyphs) => res.out = "some"

\* a character first listed in the second entry resolves to glyph 1
C8_Witness ==
    /\ pc = "done"
    /\ res.op = "lookup"
    /\ res.out = "some"
    /\ res.idx = 1
    /\ \E j \in Primary(unicode_info) :
          /\ CharAt(unicode_info, j) = res.c
          /\ CountFF(unicode_info, j - 1) = 1

\* C9: bytes between a 0xFE and the entry's 0xFF add no association, a
\* character listed only there is absent from lookup, and the glyph id
\* counter rises by one per entry all the same.
C9_AlternatesSkipped ==
    /\ pc = "done" =>
          /\ Len(unicode_map) = Cardinality(Primary(unicode_info))
          /\ glyph = CountFF(unicode_info, Len(unicode_info))
    /\ (/\ res.op = "lookup"
        /\ \A j \in Primary(unicode_info) : CharAt(unicode_info, j) # res.c) =>
          res.out = "none"

\* 'A' is listed only after a 0xFE and lookup('A') is absent
C9_Witness ==
    /\ pc = "done"
    /\ res.op = "lookup"
    /\ res.c = 65
    /\ res.out = "none"
    /\ glyph >= 1
    /\ \E j \in 1..Len(unicode_info) : unicode_info[j] = 65 /\ AfterFE(unicode_info, j)

\* C10: every step of the decoder's loops moves the position forward, the
\* position never passes the end of the table, at most one step is possible
\* in any state, and parsing ends with a Font or a failure.
C10_Terminates ==
    /\ [][(pc \in {"decode", "skip"}) => (i' > i \/ pc' = "panic")]_vars
    /\ [](i <= Len(unicode_info))
    /\ [](Cardinality({a \in 1..7 :
              \/ a = 1 /\ ENABLED HeaderReader
              \/ a = 2 /\ ENABLED BuildGlyph
              \/ a = 3 /\ ENABLED BeginUnicode
              \/ a = 4 /\ ENABLED EntryBegin
              \/ a = 5 /\ ENABLED DecodeChar
              \/ a = 6 /\ ENABLED SkipByte
              \/ a = 7 /\ ENABLED ConsumeTerminator}) <= 1)
    /\ <>(~Parsing)

\* a table with a character, a separator, a skipped byte and a terminator
\* was read to its end
C10_Witness ==
    /\ pc = "done"
    /\ i = Len(unicode_info)
    /\ i >= 4
    /\ Len(unicode_map) >= 1
    /\ \E j \in 1..Len(unicode_info) : unicode_info[j] = 254

====
